---- MODULE Spec2Model ----
(***************************************************************************)
(* Model of the wattsup serverless handlers:                               *)
(*   authorizer_lambda/app.py  - JWT authorizer with a memoized secret     *)
(*   lambda_b/app.py           - order archiver (object storage)           *)
(*   post_lambda/app.py        - order ingestion API (key-value store)     *)
(*                                                                         *)
(* Every handler invocation is one action.  Python values are tagged       *)
(* records whose payload field is named after the kind, text is a sequence *)
(* of characters, a dict is the sequence of its items in insertion order.  *)
(***************************************************************************)
EXTENDS Integers, Sequences, FiniteSets, TLC

\* ---------------------------------------------------------------- bounds
MaxInvocations == 3

\* ------------------------------------------------------- Python values
PyNone == [kind |-> "None"]
PyStr(chars) == [kind |-> "str", s |-> chars]
PyInt(i) == [kind |-> "int", n |-> i]
\* a float, named by its shortest repr, which is what str() gives
PyFloat(chars) == [kind |-> "float", repr |-> chars]
\* decimal.Decimal built from a text
PyDecimal(chars) == [kind |-> "Decimal", digits |-> chars]
\* datetime.datetime, a value the json module cannot serialize
PyDatetime(chars) == [kind |-> "datetime", iso |-> chars]
PyList(elems) == [kind |-> "list", elems |-> elems]
\* a dict: its items in insertion order, keys unique
PyDict(items) == [kind |-> "dict", items |-> items]
Item(k, v) == [k |-> k, v |-> v]

\* key in d
HasKey(d, key) == \E i \in 1..Len(d.items) : d.items[i].k = key
\* d[key], for a key of d
GetItem(d, key) == d.items[CHOOSE i \in 1..Len(d.items) : d.items[i].k = key].v

\* bool(value) as used by `if not x`
Truthy(v) ==
  CASE v.kind = "None" -> FALSE
    [] v.kind = "str" -> v.s # <<>>
    [] v.kind = "int" -> v.n # 0
    [] OTHER -> TRUE

NoExc == [type |-> "", msg |-> ""]
Exc(t, m) == [type |-> t, msg |-> m]

\* str.lower() on the characters that occur in the inputs
Lower(c) ==
  CASE c = "B" -> "b"
    [] c = "E" -> "e"
    [] c = "A" -> "a"
    [] c = "R" -> "r"
    [] OTHER -> c

LowerStr(s) == [i \in 1..Len(s) |-> Lower(s[i])]

StartsWith(s, p) == Len(s) >= Len(p) /\ SubSeq(s, 1, Len(p)) = p

\* ================================================================
\* authorizer_lambda/app.py
\* ================================================================
VARIABLES cached_secret, env_secret_name, secret_calls, auth_called,
          auth_event, auth_result, auth_log, auth_n

authVars == <<cached_secret, env_secret_name, secret_calls, auth_called,
              auth_event, auth_result, auth_log, auth_n>>

\* signing keys a secret can hold
Keys == {"key-1", "key-2"}

\* os.environ.get('JWT_SECRET_NAME'): unset, empty or a name
EnvNames == {PyNone, PyStr(<<>>), PyStr(<<"jwt-secret">>)}

\* what client.get_secret_value does when it is called
SecretResponses ==
  [kind : {"ok"}, secret : Keys, exc : {NoExc}]
    \cup {[kind |-> "raise", secret |-> "",
           exc |-> Exc("ClientError", "ResourceNotFoundException")],
          [kind |-> "nostring", secret |-> "",
           exc |-> Exc("KeyError", "'SecretString'")]}

\* The signed tokens of the model: who signed them, whether `exp` is past,
\* and the claims.  Any other text is not a token.
NoClaim == [present |-> FALSE, value |-> PyNone]
Claim(v) == [present |-> TRUE, value |-> v]
Claims(sub, email) == [sub |-> sub, email |-> email]

Jwt(id) ==
  CASE id = "jwt-sub-email" ->
         [key |-> "key-1", expired |-> FALSE,
          claims |-> Claims(Claim(PyStr(<<"user123">>)), Claim(PyStr(<<"t@example.com">>)))]
    [] id = "jwt-sub" ->
         [key |-> "key-1", expired |-> FALSE,
          claims |-> Claims(Claim(PyStr(<<"user123">>)), NoClaim)]
    [] id = "jwt-email" ->
         [key |-> "key-1", expired |-> FALSE,
          claims |-> Claims(NoClaim, Claim(PyStr(<<"t@example.com">>)))]
    [] id = "jwt-anon" ->
         [key |-> "key-1", expired |-> FALSE, claims |-> Claims(NoClaim, NoClaim)]
    [] id = "jwt-nullsub" ->
         [key |-> "key-1", expired |-> FALSE,
          claims |-> Claims(Claim(PyNone), Claim(PyStr(<<"t@example.com">>)))]
    [] id = "jwt-expired" ->
         [key |-> "key-1", expired |-> TRUE,
          claims |-> Claims(Claim(PyStr(<<"user123">>)), NoClaim)]
    [] id = "jwt-key2" ->
         [key |-> "key-2", expired |-> FALSE,
          claims |-> Claims(Claim(PyStr(<<"other">>)), NoClaim)]

JwtIds == {"jwt-sub-email", "jwt-sub", "jwt-email", "jwt-anon", "jwt-nullsub",
           "jwt-expired", "jwt-key2"}

\* jwt.decode(token, secret_key, algorithms=['HS256']): structure, then
\* signature, then expiry
jwt_decode(token, secret_key) ==
  IF ~(Len(token) = 1 /\ token[1] \in JwtIds)
  THEN [claims |-> Claims(NoClaim, NoClaim),
        exc |-> Exc("jwt.DecodeError", "Not enough segments")]
  ELSE LET j == Jwt(token[1]) IN
       IF j.key # secret_key
       THEN [claims |-> Claims(NoClaim, NoClaim),
             exc |-> Exc("jwt.InvalidSignatureError", "Signature verification failed")]
       ELSE IF j.expired
       THEN [claims |-> Claims(NoClaim, NoClaim),
             exc |-> Exc("jwt.ExpiredSignatureError", "Signature has expired")]
       ELSE [claims |-> j.claims, exc |-> NoExc]

\* the exception classes derived from jwt.InvalidTokenError
IsInvalidTokenError(e) ==
  e.type \in {"jwt.DecodeError", "jwt.InvalidSignatureError", "jwt.ExpiredSignatureError"}

Bearer == <<"B", "e", "a", "r", "e", "r", " ">>
bearer == <<"b", "e", "a", "r", "e", "r", " ">>
BEARER == <<"B", "E", "A", "R", "E", "R", " ">>

\* the authorizationToken texts of the model
TokenTexts ==
  {<<>>, Bearer, <<"i", "n", "v", "a", "l", "i", "d">>}
    \cup {<<j>> : j \in JwtIds}
    \cup {Bearer \o <<j>> : j \in JwtIds}
    \cup {bearer \o <<j>> : j \in {"jwt-sub-email", "jwt-expired"}}
    \cup {BEARER \o <<j>> : j \in {"jwt-sub-email", "jwt-email", "jwt-anon"}}
    \cup {<<"B", "e", "a", "r", "e", "r">> \o <<j>> : j \in {"jwt-sub-email"}}
    \cup {Bearer \o <<" ", j>> : j \in {"jwt-sub-email"}}

MethodArns == {"arn:aws:execute-api:eu-west-1:123456789:api/dev/POST/orders"}

Absent == [present |-> FALSE, value |-> PyNone]
Present(v) == [present |-> TRUE, value |-> v]

\* events handed to the authorizer: a mapping with or without its two keys,
\* or no mapping at all
AuthEvents ==
  [isdict : {TRUE},
   authorizationToken : {Absent, Present(PyNone), Present(PyInt(0)), Present(PyInt(5))}
                          \cup {Present(PyStr(t)) : t \in TokenTexts},
   methodArn : {Absent} \cup {Present(a) : a \in MethodArns}]
    \cup {[isdict |-> FALSE, authorizationToken |-> Absent, methodArn |-> Absent]}

\* get_secret_key(): the cached value, else the configured secret fetched
\* through the collaborator.  `resp` is what the collaborator would answer.
get_secret_key_nocache(cached, name, resp) ==
  IF ~Truthy(name)
  THEN [ret |-> "", exc |-> Exc("ValueError", "JWT_SECRET_NAME environment variable not set"),
        cached |-> cached, called |-> 0]
  ELSE IF resp.kind = "ok"
  THEN [ret |-> resp.secret, exc |-> NoExc, cached |-> PyStr(<<resp.secret>>), called |-> 1]
  ELSE [ret |-> "", exc |-> resp.exc, cached |-> cached, called |-> 1]

get_secret_key_noenvcheck(cached, name, resp) ==
  IF cached.kind # "None"
  THEN [ret |-> cached.s[1], exc |-> NoExc, cached |-> cached, called |-> 0]
  ELSE IF resp.kind = "ok"
  THEN [ret |-> resp.secret, exc |-> NoExc, cached |-> PyStr(<<resp.secret>>), called |-> 1]
  ELSE [ret |-> "", exc |-> resp.exc, cached |-> cached, called |-> 1]

get_secret_key(cached, name, resp) ==
  IF cached.kind # "None"
  THEN [ret |-> cached.s[1], exc |-> NoExc, cached |-> cached, called |-> 0]
  ELSE IF ~Truthy(name)
  THEN [ret |-> "", exc |-> Exc("ValueError", "JWT_SECRET_NAME environment variable not set"),
        cached |-> cached, called |-> 0]
  ELSE IF resp.kind = "ok"
  THEN [ret |-> resp.secret, exc |-> NoExc, cached |-> PyStr(<<resp.secret>>), called |-> 1]
  ELSE [ret |-> "", exc |-> resp.exc, cached |-> cached, called |-> 1]

\* validate_token(token)
validate_token(token, cached, name, resp) ==
  LET k == get_secret_key(cached, name, resp) IN
  IF k.exc # NoExc
  THEN [claims |-> Claims(NoClaim, NoClaim), exc |-> k.exc,
        cached |-> k.cached, called |-> k.called]
  ELSE LET d == jwt_decode(token, k.ret) IN
       [claims |-> d.claims, exc |-> d.exc, cached |-> k.cached, called |-> k.called]

NoPolicy == [kind |-> "nopolicy"]

\* generate_policy(principal_id, effect, resource, context)
generate_policy(principal_id, effect, resource, context) ==
  [kind |-> "policy",
   principalId |-> principal_id,
   Version |-> "2012-10-17",
   Statement |-> <<[Action |-> "execute-api:Invoke", Effect |-> effect,
                    Resource |-> resource]>>,
   context |-> context]

\* claims.get('sub', claims.get('email', 'user'))
principal_of_emailfirst(claims) ==
  IF claims.email.present THEN claims.email.value
  ELSE IF claims.sub.present THEN claims.sub.value
  ELSE PyStr(<<"user">>)

principal_of(claims) ==
  IF claims.sub.present THEN claims.sub.value
  ELSE IF claims.email.present THEN claims.email.value
  ELSE PyStr(<<"user">>)

\* the three except clauses of lambda_handler: what is printed and raised
handle_exception_reraise(e) ==
  IF e.type = "jwt.ExpiredSignatureError"
  THEN [log |-> [line |-> "Token expired", detail |-> ""],
        raised |-> Exc("Exception", "Unauthorized")]
  ELSE IF IsInvalidTokenError(e)
  THEN [log |-> [line |-> "Invalid token: ", detail |-> e.msg],
        raised |-> Exc("Exception", "Unauthorized")]
  ELSE [log |-> [line |-> "Authorization error: ", detail |-> e.msg],
        raised |-> e]

handle_exception(e) ==
  IF e.type = "jwt.ExpiredSignatureError"
  THEN [log |-> [line |-> "Token expired", detail |-> ""],
        raised |-> Exc("Exception", "Unauthorized")]
  ELSE IF IsInvalidTokenError(e)
  THEN [log |-> [line |-> "Invalid token: ", detail |-> e.msg],
        raised |-> Exc("Exception", "Unauthorized")]
  ELSE [log |-> [line |-> "Authorization error: ", detail |-> e.msg],
        raised |-> Exc("Exception", "Unauthorized")]

NoLog == [line |-> "", detail |-> ""]

\* the try block of lambda_handler; `exc` is what leaves the block
authorizer_try(event, cached, name, resp) ==
  IF ~event.isdict
  THEN [policy |-> NoPolicy, cached |-> cached, called |-> 0,
        exc |-> Exc("AttributeError", "'NoneType' object has no attribute 'get'")]
  ELSE
  LET auth_token == IF event.authorizationToken.present
                    THEN event.authorizationToken.value ELSE PyStr(<<>>)
      method_arn == IF event.methodArn.present THEN event.methodArn.value ELSE "*"
  IN
  IF ~Truthy(auth_token)
  THEN [policy |-> NoPolicy, cached |-> cached, called |-> 0,
        exc |-> Exc("ValueError", "No authorization token provided")]
  ELSE IF auth_token.kind # "str"
  THEN [policy |-> NoPolicy, cached |-> cached, called |-> 0,
        exc |-> Exc("AttributeError", "'int' object has no attribute 'lower'")]
  ELSE
  LET token == IF StartsWith(LowerStr(auth_token.s), bearer)
               THEN SubSeq(auth_token.s, 8, Len(auth_token.s))
               ELSE auth_token.s
      v == validate_token(token, cached, name, resp)
  IN
  IF v.exc # NoExc
  THEN [policy |-> NoPolicy, cached |-> v.cached, called |-> v.called, exc |-> v.exc]
  ELSE
  LET principal_id == principal_of(v.claims)
      auth_context == [userId |-> principal_id,
                       email |-> IF v.claims.email.present
                                 THEN v.claims.email.value ELSE PyStr(<<>>)]
  IN [policy |-> generate_policy(principal_id, "Allow", method_arn, auth_context),
      cached |-> v.cached, called |-> v.called, exc |-> NoExc]

\* lambda_handler(event, context) of the authorizer
AuthorizerInvoke ==
  /\ auth_n < MaxInvocations
  /\ \E event \in AuthEvents, resp \in SecretResponses :
       LET r == authorizer_try(event, cached_secret, env_secret_name, resp)
           h == handle_exception(r.exc)
       IN /\ auth_event' = event
          /\ cached_secret' = r.cached
          /\ secret_calls' = secret_calls + r.called
          /\ auth_called' = (r.called = 1)
          /\ auth_result' = IF r.exc = NoExc
                            THEN [kind |-> "return", policy |-> r.policy, exc |-> NoExc]
                            ELSE [kind |-> "raise", policy |-> NoPolicy, exc |-> h.raised]
          /\ auth_log' = IF r.exc = NoExc THEN NoLog ELSE h.log
          /\ auth_n' = auth_n + 1
          /\ UNCHANGED env_secret_name

NoAuthEvent == [isdict |-> FALSE, authorizationToken |-> Absent, methodArn |-> Absent]

AuthInit ==
  /\ cached_secret = PyNone
  /\ env_secret_name \in EnvNames
  /\ secret_calls = 0
  /\ auth_called = FALSE
  /\ auth_event = NoAuthEvent
  /\ auth_result = [kind |-> "none", policy |-> NoPolicy, exc |-> NoExc]
  /\ auth_log = NoLog
  /\ auth_n = 0

\* ================================================================
\* lambda_b/app.py
\* ================================================================
VARIABLES arch_event, arch_result, s3_calls, arch_log, arch_n, s3_fault, now

archVars == <<arch_event, arch_result, s3_calls, arch_log, arch_n, s3_fault>>

\* the clock never runs past this instant
MaxTime == 3

LOG_BUCKET == "test-log-bucket"

T(word) == PyStr(<<word>>)
rejected == PyStr(<<"r", "e", "j", "e", "c", "t", "e", "d">>)
accepted == PyStr(<<"a", "c", "c", "e", "p", "t", "e", "d">>)
Rejected == PyStr(<<"R", "e", "j", "e", "c", "t", "e", "d">>)

\* str(value), the `default` of json.dumps in save_to_s3
str(v) ==
  CASE v.kind = "datetime" -> PyStr(v.iso)
    [] v.kind = "Decimal" -> PyStr(v.digits)
    [] OTHER -> v

RECURSIVE JsonSerializable(_)
\* json.dumps(v) without `default` raises TypeError on any other type
JsonSerializable(v) ==
  CASE v.kind \in {"None", "str", "int", "float"} -> TRUE
    [] v.kind = "list" -> \A i \in 1..Len(v.elems) : JsonSerializable(v.elems[i])
    [] v.kind = "dict" -> \A i \in 1..Len(v.items) : JsonSerializable(v.items[i].v)
    [] OTHER -> FALSE

RECURSIVE Stringified(_)
\* the document json.dumps(v, default=str) writes
Stringified(v) ==
  CASE v.kind = "list" -> PyList([i \in 1..Len(v.elems) |-> Stringified(v.elems[i])])
    [] v.kind = "dict" ->
         PyDict([i \in 1..Len(v.items) |-> Item(v.items[i].k, Stringified(v.items[i].v))])
    [] OTHER -> str(v)

\* a JSON text: the document it denotes and its indentation
JsonText(doc, indent) == [kind |-> "jsontext", doc |-> doc, indent |-> indent]

\* the documents handed to the archiver
ArchStatuses == {<<>>} \cup {<<Item("status", st)>> : st \in {accepted, rejected, Rejected, PyInt(5), PyNone}}

ArchExtras ==
  {<<>>,
   <<Item("power", PyInt(100)), Item("price", PyFloat(<<"5", "0", ".", "2", "5">>))>>,
   <<Item("power", PyInt(500)), Item("custom_field", T("value"))>>,
   <<Item("at", PyDatetime(<<"2026-01-01 00:00:00">>))>>,
   <<Item("meta", PyDict(<<Item("seen", PyDatetime(<<"2026-01-01 00:00:00">>))>>))>>,
   <<Item("tags", PyList(<<T("a"), PyNone>>))>>}

ArchEvents == {PyDict(st \o ex) : st \in ArchStatuses, ex \in ArchExtras}

\* what s3_client.put_object does when it is called
S3Responses == {NoExc, Exc("ClientError", "AccessDenied")}

NoCalls == <<>>

\* save_to_s3(data, filename): one put_object; a failure is logged and re-raised
save_to_s3_swallow(data, filename, s3resp) ==
  LET json_data == JsonText(Stringified(data), 2)
      call == [Bucket |-> LOG_BUCKET,
               Key |-> [name |-> filename, ext |-> ".json"],
               Body |-> json_data,
               ContentType |-> "application/json",
               ServerSideEncryption |-> "AES256"]
  IN IF s3resp = NoExc
     THEN [exc |-> NoExc, calls |-> <<call>>,
           log |-> <<"Successfully saved data to s3">>]
     ELSE [exc |-> NoExc, calls |-> <<call>>,
           log |-> <<"Failed to save data to S3">>]

save_to_s3(data, filename, s3resp) ==
  LET json_data == JsonText(Stringified(data), 2)
      call == [Bucket |-> LOG_BUCKET,
               Key |-> [name |-> filename, ext |-> ".json"],
               Body |-> json_data,
               ContentType |-> "application/json",
               ServerSideEncryption |-> "AES256"]
  IN IF s3resp = NoExc
     THEN [exc |-> NoExc, calls |-> <<call>>,
           log |-> <<"Successfully saved data to s3">>]
     ELSE [exc |-> s3resp, calls |-> <<call>>,
           log |-> <<"Failed to save data to S3">>]

NoResponse == [kind |-> "noresponse"]

\* lambda_handler(event, context) of the archiver
archiver_handler(event, t, s3resp) ==
  IF ~JsonSerializable(event)
  THEN \* json.dumps(event) inside the first logger.info
       [kind |-> "raise", response |-> NoResponse, calls |-> NoCalls, log |-> <<>>,
        exc |-> Exc("TypeError", "Object of type datetime is not JSON serializable")]
  ELSE IF ~HasKey(event, "status")
  THEN [kind |-> "raise", response |-> NoResponse, calls |-> NoCalls,
        log |-> <<"Processing order">>, exc |-> Exc("KeyError", "'status'")]
  ELSE IF GetItem(event, "status") = rejected
  THEN [kind |-> "raise", response |-> NoResponse, calls |-> NoCalls,
        log |-> <<"Processing order">>,
        exc |-> Exc("ValueError", "Order status is rejected!")]
  ELSE
  LET r == save_to_s3(event, [prefix |-> "orders/order_", isoformat |-> t], s3resp) IN
  IF r.exc # NoExc
  THEN [kind |-> "raise", response |-> NoResponse, calls |-> r.calls,
        log |-> <<"Processing order">> \o r.log, exc |-> r.exc]
  ELSE [kind |-> "return",
        response |-> [kind |-> "document", statusCode |-> 200,
                      message |-> "Order processed successfully", order |-> event],
        calls |-> r.calls, log |-> <<"Processing order">> \o r.log, exc |-> NoExc]

ArchiverInvoke ==
  /\ arch_n < MaxInvocations
  /\ \E event \in ArchEvents, s3resp \in S3Responses, t \in now..MaxTime :
       LET r == archiver_handler(event, t, s3resp) IN
       \* the object store fails only where it is called
       /\ (r.calls = NoCalls => s3resp = NoExc)
       /\ now' = t
       /\ arch_event' = event
       /\ arch_result' = [kind |-> r.kind, response |-> r.response, exc |-> r.exc]
       /\ s3_calls' = r.calls
       /\ arch_log' = r.log
       /\ arch_n' = arch_n + 1
       /\ s3_fault' = s3resp

ArchInit ==
  /\ arch_event = PyNone
  /\ arch_result = [kind |-> "none", response |-> NoResponse, exc |-> NoExc]
  /\ s3_calls = NoCalls
  /\ arch_log = <<>>
  /\ arch_n = 0
  /\ s3_fault = NoExc

\* ================================================================
\* post_lambda/app.py
\* ================================================================
VARIABLES ing_event, ing_result, ing_checked, batch_writer_calls, put_item_calls,
          ing_log, ing_fault, saved_records

ingVars == <<ing_event, ing_result, ing_checked, batch_writer_calls, put_item_calls,
             ing_log, ing_fault, saved_records>>

\* longest batch of the model
MaxBatch == 2

TABLE_NAME == "test-orders-table"

\* TTL: 24 hours in seconds
TTL_SECONDS == 24 * 60 * 60

record_id == <<"r", "e", "c", "o", "r", "d", "_", "i", "d">>

\* s contains sub as a run of consecutive characters
Contains(s, sub) ==
  \E i \in 0..(Len(s) - Len(sub)) : SubSeq(s, i + 1, i + Len(sub)) = sub

\* 'record_id' in order: a key of a dict, a substring of a str, an element of
\* a list; TypeError for a value that is no container
record_id_in_anykey(order) ==
  CASE order.kind = "dict" -> [raised |-> FALSE, result |-> Len(order.items) > 0]
    [] order.kind = "str" -> [raised |-> FALSE, result |-> Contains(order.s, record_id)]
    [] order.kind = "list" ->
         [raised |-> FALSE,
          result |-> \E i \in 1..Len(order.elems) : order.elems[i] = PyStr(record_id)]
    [] OTHER -> [raised |-> TRUE, result |-> FALSE]

record_id_in(order) ==
  CASE order.kind = "dict" -> [raised |-> FALSE, result |-> HasKey(order, "record_id")]
    [] order.kind = "str" -> [raised |-> FALSE, result |-> Contains(order.s, record_id)]
    [] order.kind = "list" ->
         [raised |-> FALSE,
          result |-> \E i \in 1..Len(order.elems) : order.elems[i] = PyStr(record_id)]
    [] OTHER -> [raised |-> TRUE, result |-> FALSE]

\* str(e) of the TypeError `'record_id' in order` raises on a value that is
\* no container
not_iterable(order) ==
  CASE order.kind = "int" -> "argument of type 'int' is not iterable"
    [] order.kind = "None" -> "argument of type 'NoneType' is not iterable"
    [] order.kind = "float" -> "argument of type 'float' is not iterable"
    [] OTHER -> "argument of type 'decimal.Decimal' is not iterable"

\* str(e) of the TypeError {**record} raises on a value that is no mapping
not_a_mapping(record) ==
  CASE record.kind = "str" -> "'str' object is not a mapping"
    [] record.kind = "list" -> "'list' object is not a mapping"
    [] record.kind = "int" -> "'int' object is not a mapping"
    [] OTHER -> "'NoneType' object is not a mapping"

\* {**d, key: value}: the value replaces the one of an existing key in place,
\* a new key goes last
DictSet_keepclient(d, key, value) ==
  IF HasKey(d, key) THEN d ELSE PyDict(Append(d.items, Item(key, value)))

DictSet(d, key, value) ==
  IF HasKey(d, key)
  THEN PyDict([i \in 1..Len(d.items) |->
                 IF d.items[i].k = key THEN Item(key, value) ELSE d.items[i]])
  ELSE PyDict(Append(d.items, Item(key, value)))

\* convert_floats_to_decimal(obj)
convert_floats_to_decimal_shallow(obj) ==
  CASE obj.kind = "float" -> PyDecimal(obj.repr)
    [] obj.kind = "dict" ->
         PyDict([i \in 1..Len(obj.items) |->
                   Item(obj.items[i].k,
                        IF obj.items[i].v.kind = "float"
                        THEN PyDecimal(obj.items[i].v.repr) ELSE obj.items[i].v)])
    [] OTHER -> obj

RECURSIVE convert_floats_to_decimal(_)
convert_floats_to_decimal(obj) ==
  CASE obj.kind = "float" -> PyDecimal(obj.repr)
    [] obj.kind = "dict" ->
         PyDict([i \in 1..Len(obj.items) |->
                   Item(obj.items[i].k, convert_floats_to_decimal(obj.items[i].v))])
    [] obj.kind = "list" ->
         PyList([i \in 1..Len(obj.elems) |-> convert_floats_to_decimal(obj.elems[i])])
    [] OTHER -> obj

\* what the key-value store does during one save: nothing wrong, or a failure
\* of batch_writer(), of the put_item of record `idx`, or of the final flush
StoreFaults(n) ==
  {[at |-> "none", idx |-> 0], [at |-> "open", idx |-> 0], [at |-> "exit", idx |-> 0]}
    \cup {[at |-> "put", idx |-> i] : i \in 1..n}

StoreError == Exc("ClientError", "DynamoDB error")

\* time.time() while record i is annotated: the clock ticks once, before
\* record `tickAt`
TimeAt(t0, tickAt, i) == IF i >= tickAt THEN t0 + 1 ELSE t0

\* the item save_to_db builds for record i
item_of_nocreated(records, i, t0, tickAt) ==
  convert_floats_to_decimal(DictSet(records[i], "ttl", PyInt(t0 + TTL_SECONDS)))

item_of(records, i, t0, tickAt) ==
  convert_floats_to_decimal(
    DictSet(DictSet(records[i], "ttl", PyInt(t0 + TTL_SECONDS)),
            "created_at", PyInt(TimeAt(t0, tickAt, i))))

\* the caller's list once save_to_db is over: {**record, ...} and
\* convert_floats_to_decimal build new objects, no record is assigned to
records_after(records) == records

\* save_to_db(records): the calls made on the table and the exception raised
save_to_db(records, t0, tickAt, fault) ==
  IF fault.at = "open"
  THEN [exc |-> StoreError, opens |-> 1, puts |-> <<>>,
        log |-> <<"Failed to save records to DynamoDB">>]
  ELSE
  LET n == Len(records)
      \* the first record that is no mapping stops the loop with a TypeError
      nonMappings == {i \in 1..n : records[i].kind # "dict"}
      stopMap == IF nonMappings = {} THEN n + 1
                 ELSE CHOOSE i \in nonMappings : \A j \in nonMappings : i <= j
      stopPut == IF fault.at = "put" THEN fault.idx ELSE n + 1
      \* put_item is called for records 1..last
      last == IF stopPut < stopMap THEN stopPut ELSE stopMap - 1
      puts == [i \in 1..last |-> item_of(records, i, t0, tickAt)]
  IN
  IF stopPut < stopMap
  THEN [exc |-> StoreError, opens |-> 1, puts |-> puts,
        log |-> <<"Failed to save records to DynamoDB">>]
  ELSE IF fault.at = "exit"
  THEN \* an exception raised on leaving the `with` block replaces the one in flight
       [exc |-> StoreError, opens |-> 1, puts |-> puts,
        log |-> <<"Failed to save records to DynamoDB">>]
  ELSE IF stopMap <= n
  THEN [exc |-> Exc("TypeError", not_a_mapping(records[stopMap])), opens |-> 1, puts |-> puts,
        log |-> <<"Failed to save records to DynamoDB">>]
  ELSE [exc |-> NoExc, opens |-> 1, puts |-> puts,
        log |-> <<"Records are successfully saved to the DB table">>]

\* A body that is a str is a text: the JSON text of `doc`, or no JSON text.
BodyText(doc) == [kind |-> "str", denotes |-> doc]
Malformed == [kind |-> "malformed"]
BadText == [kind |-> "str", denotes |-> Malformed]

\* json.loads(body)
json_loads(body) ==
  IF body.denotes = Malformed
  THEN [value |-> PyNone,
        exc |-> Exc("JSONDecodeError", "Expecting value: line 1 column 1 (char 0)")]
  ELSE [value |-> body.denotes, exc |-> NoExc]

\* the HTTP-shaped response every return statement of lambda_handler builds
http_response(statusCode, body) ==
  [kind |-> "response",
   isBase64Encoded |-> FALSE,
   statusCode |-> statusCode,
   headers |-> [ContentType |-> "application/json"],
   body |-> body]

ErrorBody(text, detail) == [errorMessage |-> [text |-> text, detail |-> detail]]
SavedBody(n) ==
  [message |-> [text |-> "Successfully saved N orders", N |-> n], count |-> n]

Check(name, outcome) == [check |-> name, outcome |-> outcome]

Returned(resp, checked) ==
  [kind |-> "return", response |-> resp, exc |-> NoExc, checked |-> checked,
   opens |-> 0, puts |-> <<>>, log |-> <<>>]

\* the `except Exception` clause: a 500 carrying str(e)
internal_error(e, checked, opens, puts, log) ==
  [kind |-> "return",
   response |-> http_response(500, ErrorBody("Internal server error: ", e.msg)),
   exc |-> NoExc, checked |-> checked, opens |-> opens, puts |-> puts,
   log |-> log \o <<"Error processing request">>]

\* the loop over the orders: 0 when every order passes, else the position of
\* the first order that lacks 'record_id' or on which the test raises
first_bad_order_headonly(orders) ==
  IF Len(orders) > 0 /\ (record_id_in(orders[1]).raised \/ ~record_id_in(orders[1]).result)
  THEN 1 ELSE 0

first_bad_order(orders) ==
  LET bad == {i \in 1..Len(orders) :
                record_id_in(orders[i]).raised \/ ~record_id_in(orders[i]).result}
  IN IF bad = {} THEN 0 ELSE CHOOSE i \in bad : \A j \in bad : i <= j

\* the statements of the try block from the list test on
validate_and_save_swapped(orders, checked, t0, tickAt, fault) ==
  IF orders.kind # "list"
  THEN Returned(http_response(400, ErrorBody("Request body must be a list of orders", "")),
                checked \o <<Check("record_id", "passed"), Check("list", "failed")>>)
  ELSE
  LET listed == checked \o <<Check("list", "passed")>>
      bad == first_bad_order(orders.elems)
  IN
  IF bad # 0 /\ record_id_in(orders.elems[bad]).raised
  THEN internal_error(Exc("TypeError", not_iterable(orders.elems[bad])),
                      listed \o <<Check("record_id", "raised")>>, 0, <<>>, <<>>)
  ELSE IF bad # 0
  THEN Returned(http_response(400, ErrorBody("Each order must have a 'record_id' field", "")),
                listed \o <<Check("record_id", "failed")>>)
  ELSE
  LET r == save_to_db(orders.elems, t0, tickAt, fault)
      done == listed \o <<Check("record_id", "passed")>>
  IN IF r.exc # NoExc
     THEN internal_error(r.exc, done, r.opens, r.puts, r.log)
     ELSE [kind |-> "return",
           response |-> http_response(201, SavedBody(Len(orders.elems))),
           exc |-> NoExc, checked |-> done,
           opens |-> r.opens, puts |-> r.puts, log |-> r.log]

validate_and_save(orders, checked, t0, tickAt, fault) ==
  IF orders.kind # "list"
  THEN Returned(http_response(400, ErrorBody("Request body must be a list of orders", "")),
                checked \o <<Check("list", "failed")>>)
  ELSE
  LET listed == checked \o <<Check("list", "passed")>>
      bad == first_bad_order(orders.elems)
  IN
  IF bad # 0 /\ record_id_in(orders.elems[bad]).raised
  THEN internal_error(Exc("TypeError", not_iterable(orders.elems[bad])),
                      listed \o <<Check("record_id", "raised")>>, 0, <<>>, <<>>)
  ELSE IF bad # 0
  THEN Returned(http_response(400, ErrorBody("Each order must have a 'record_id' field", "")),
                listed \o <<Check("record_id", "failed")>>)
  ELSE
  LET r == save_to_db(orders.elems, t0, tickAt, fault)
      done == listed \o <<Check("record_id", "passed")>>
  IN IF r.exc # NoExc
     THEN internal_error(r.exc, done, r.opens, r.puts, r.log)
     ELSE [kind |-> "return",
           response |-> http_response(201, SavedBody(Len(orders.elems))),
           exc |-> NoExc, checked |-> done,
           opens |-> r.opens, puts |-> r.puts, log |-> r.log]

\* lambda_handler(event, context) of the ingestion API
ingestion_handler(event, t0, tickAt, fault) ==
  IF ~event.httpMethod.present \/ ~event.path.present
  THEN \* event['httpMethod'], event['path'] in the logger.info before the try
       [kind |-> "raise", response |-> NoResponse,
        exc |-> Exc("KeyError", IF event.httpMethod.present THEN "'path'" ELSE "'httpMethod'"),
        checked |-> <<>>, opens |-> 0, puts |-> <<>>, log |-> <<>>]
  ELSE
  LET body == IF event.body.present THEN event.body.value ELSE PyNone IN
  IF body = PyNone
  THEN Returned(http_response(400, ErrorBody("Request body is empty", "")),
                <<Check("body", "failed")>>)
  ELSE IF body.kind = "str"
  THEN LET parsed == json_loads(body) IN
       IF parsed.exc # NoExc
       THEN Returned(http_response(400, ErrorBody("Invalid JSON: ", parsed.exc.msg)),
                     <<Check("body", "passed"), Check("json", "failed")>>)
       ELSE validate_and_save(parsed.value,
                              <<Check("body", "passed"), Check("json", "passed")>>,
                              t0, tickAt, fault)
  ELSE validate_and_save(body, <<Check("body", "passed")>>, t0, tickAt, fault)

\* the order records and the other values a client can put in a batch
OrderRecords ==
  {PyDict(<<Item("record_id", T("order-001")), Item("status", T("pending")),
            Item("power", PyInt(100))>>),
   PyDict(<<Item("record_id", T("order-002")),
            Item("price", PyFloat(<<"5", "0", ".", "2", "5">>)),
            Item("lines", PyList(<<PyDict(<<Item("qty", PyFloat(<<"1", ".", "5">>))>>)>>))>>),
   PyDict(<<Item("ttl", PyInt(5)), Item("record_id", T("order-003")),
            Item("created_at", T("yesterday"))>>),
   PyDict(<<Item("record_id", PyStr(<<>>))>>),
   PyDict(<<Item("record_id", PyNone)>>),
   PyDict(<<Item("status", T("pending"))>>)}

NonRecords ==
  {PyInt(5), PyNone, T("order-004"),
   PyStr(<<"n", "o", "_">> \o record_id),
   PyList(<<PyStr(record_id)>>)}

BatchElements == OrderRecords \cup NonRecords

Batches == UNION {[1..n -> BatchElements] : n \in 0..MaxBatch}

\* the values a JSON text denotes that are no list
NonListDocs == {PyDict(<<Item("record_id", T("single"))>>), PyNone, T("order-001"), PyInt(7)}

Bodies ==
  {Absent, Present(PyNone), Present(BadText)}
    \cup {Present(d) : d \in {x \in NonListDocs : x.kind # "str"}}
    \cup {Present(BodyText(d)) : d \in NonListDocs}
    \cup {Present(PyList(b)) : b \in Batches}
    \cup {Present(BodyText(PyList(b))) : b \in Batches}

\* HTTP-shaped events, and events that lack the method or the path
IngestEvents ==
  [httpMethod : {Present("POST")}, path : {Present("/orders")}, body : Bodies]
    \cup [httpMethod : {Absent, Present("POST")}, path : {Absent, Present("/orders")},
          body : {Absent, Present(BadText), Present(BodyText(PyList(<<>>)))}]

\* the list the handler passes to save_to_db
OrdersOf(event) ==
  LET b == event.body.value IN IF b.kind = "str" THEN b.denotes.elems ELSE b.elems

BatchLen(event) ==
  IF ~event.body.present THEN 0
  ELSE LET b == event.body.value IN
       IF b.kind = "list" THEN Len(b.elems)
       ELSE IF b.kind = "str" /\ b.denotes.kind = "list" THEN Len(b.denotes.elems)
       ELSE 0

\* One invocation of the handler.  The module keeps no state between
\* invocations (its globals are only read), so every invocation starts from
\* the state of the freshly loaded module.
IngestionInvoke ==
  /\ ing_result.kind = "none"
  /\ \E event \in IngestEvents, t0 \in now..MaxTime :
       \E fault \in StoreFaults(BatchLen(event)), tickAt \in 1..(BatchLen(event) + 1) :
         LET r == ingestion_handler(event, t0, tickAt, fault) IN
         \* the clock is read, a fault or a tick happens only where the save runs
         /\ (r.opens = 0 => fault.at = "none" /\ tickAt = 1 /\ t0 = now)
         /\ (fault.at # "none" => tickAt = 1)
         /\ (fault.at = "put" => fault.idx <= Len(r.puts))
         /\ now' = IF r.opens > 0 /\ tickAt <= BatchLen(event) THEN t0 + 1 ELSE t0
         /\ ing_event' = event
         /\ ing_result' = [kind |-> r.kind, response |-> r.response, exc |-> r.exc]
         /\ ing_checked' = r.checked
         /\ batch_writer_calls' = r.opens
         /\ put_item_calls' = r.puts
         /\ ing_log' = r.log
         /\ ing_fault' = fault
         /\ saved_records' = IF r.opens > 0 THEN records_after(OrdersOf(event)) ELSE <<>>

NoIngestEvent == [httpMethod |-> Absent, path |-> Absent, body |-> Absent]

IngInit ==
  /\ ing_event = NoIngestEvent
  /\ ing_result = [kind |-> "none", response |-> NoResponse, exc |-> NoExc]
  /\ ing_checked = <<>>
  /\ batch_writer_calls = 0
  /\ put_item_calls = <<>>
  /\ ing_log = <<>>
  /\ ing_fault = [at |-> "none", idx |-> 0]
  /\ saved_records = <<>>

\* ================================================================
\* post_lambda/app.py: convert_floats_to_decimal called on its own
\* ================================================================
VARIABLES conv_in, conv_out

convVars == <<conv_in, conv_out>>

\* deepest nesting of the documents
MaxDepth == 2

\* the leaves: floats, an integer, strings, a decimal
Leaves ==
  {PyFloat(<<"5", "0", ".", "2", "5">>), PyFloat(<<"1", ".", "5">>), PyInt(100),
   T("test"), PyStr(<<"5", "0", ".", "2", "5">>),
   PyDecimal(<<"5", "0", ".", "2", "5">>)}

RECURSIVE Docs(_)
\* the documents nested at most d deep: leaves, lists of zero to two elements
\* and mappings of zero to two keys (the second element or value is a leaf)
Docs(d) ==
  IF d = 0 THEN Leaves
  ELSE LET inner == Docs(d - 1) IN
       Leaves
         \cup {PyList(<<>>), PyDict(<<>>)}
         \cup {PyList(<<x>>) : x \in inner}
         \cup {PyList(<<x, y>>) : x \in inner, y \in Leaves}
         \cup {PyDict(<<Item("price", x)>>) : x \in inner}
         \cup {PyDict(<<Item("nested", x), Item("count", y)>>) : x \in inner, y \in Leaves}

\* one more call: on the document first, then on the result of the last call
ConvertApply ==
  /\ Len(conv_out) < 2
  /\ conv_out' = Append(conv_out,
                        convert_floats_to_decimal(
                          IF conv_out = <<>> THEN conv_in ELSE conv_out[Len(conv_out)]))
  /\ UNCHANGED conv_in

ConvInit == conv_in = PyNone /\ conv_out = <<>>

\* ================================================================
\* the execution contexts
\* ================================================================
vars == <<authVars, archVars, ingVars, convVars, now>>

Init == AuthInit /\ ArchInit /\ IngInit /\ ConvInit /\ now = 0

\* the archiver and the ingestion API do not read JWT_SECRET_NAME
InitUnconfigured == Init /\ env_secret_name = PyNone

\* a process that only calls convert_floats_to_decimal, on any document
InitConvert ==
  /\ AuthInit /\ ArchInit /\ IngInit /\ now = 0
  /\ env_secret_name = PyNone
  /\ conv_in \in Docs(MaxDepth)
  /\ conv_out = <<>>

NextAuthorizer == AuthorizerInvoke /\ UNCHANGED <<archVars, ingVars, convVars, now>>

NextArchiver == ArchiverInvoke /\ UNCHANGED <<authVars, ingVars, convVars>>

NextIngestion == IngestionInvoke /\ UNCHANGED <<authVars, archVars, convVars>>

NextConvert == ConvertApply /\ UNCHANGED <<authVars, archVars, ingVars, now>>

\* An execution context serves one function: the context of the archiver
\* never runs the ingestion handler, nor the other way round.
NextStores ==
  \/ ing_result.kind = "none" /\ NextArchiver
  \/ arch_n = 0 /\ NextIngestion

SpecAuthorizer == Init /\ [][NextAuthorizer]_vars

SpecArchiver == InitUnconfigured /\ [][NextArchiver]_vars

SpecIngestion == InitUnconfigured /\ [][NextIngestion]_vars

SpecConvert == InitConvert /\ [][NextConvert]_vars

\* the two handlers that write to a store, each in a context of its own
SpecStores == InitUnconfigured /\ [][NextStores]_vars

\* ---------------------------------------------------------------
\* Properties of the authorizer
\* ---------------------------------------------------------------
Unauthorized == Exc("Exception", "Unauthorized")

AuthInvoked == auth_result.kind # "none"

\* the text of the event's authorizationToken, <<>> when it has none
AuthTokenText ==
  IF auth_event.isdict /\ auth_event.authorizationToken.present
       /\ auth_event.authorizationToken.value.kind = "str"
  THEN auth_event.authorizationToken.value.s
  ELSE <<>>

\* C1: every authorizer invocation that does not return an Allow policy
\* raises Exception('Unauthorized') and nothing else, whatever the cause
\* (no token, expired, malformed, wrong signature, secret failure, bad event).
C1_FailureIsUnauthorized ==
  AuthInvoked =>
    /\ \/ /\ auth_result.kind = "return"
          /\ auth_result.policy.kind = "policy"
          /\ auth_result.policy.Statement[1].Effect = "Allow"
       \/ /\ auth_result.kind = "raise"
          /\ auth_result.exc = Unauthorized
          /\ auth_result.policy = NoPolicy
    /\ (AuthTokenText = <<>> => auth_result.kind = "raise")
    /\ (auth_log # NoLog => auth_result.kind = "raise")

\* a failure inside get_secret_key (the collaborator raised) ended as Unauthorized
C1_Witness ==
  /\ auth_result.kind = "raise"
  /\ auth_called
  /\ auth_log = [line |-> "Authorization error: ", detail |-> "ResourceNotFoundException"]

\* the secret had to be resolved while JWT_SECRET_NAME is unset or empty
ConfigMissingCase ==
  /\ AuthInvoked
  /\ ~Truthy(env_secret_name)
  /\ AuthTokenText # <<>>

\* C2 as stated: a missing JWT_SECRET_NAME ends in an outcome the caller can
\* tell apart from the token-error outcome 'Unauthorized'.
C2_ConfigErrorDistinct ==
  ConfigMissingCase => auth_result.exc # Unauthorized

\* C2 amended: with JWT_SECRET_NAME missing, get_secret_key raises the
\* configuration ValueError without calling the collaborator, and the handler
\* turns it into the same Exception('Unauthorized') as a token error; only
\* the log line names the configuration.
C2_ConfigErrorCollapsed ==
  ConfigMissingCase =>
    /\ auth_result.kind = "raise"
    /\ auth_result.exc = Unauthorized
    /\ ~auth_called
    /\ secret_calls = 0
    /\ auth_log = [line |-> "Authorization error: ",
                   detail |-> "JWT_SECRET_NAME environment variable not set"]

C2_Witness ==
  /\ ConfigMissingCase
  /\ env_secret_name = PyNone
  /\ AuthTokenText = Bearer \o <<"jwt-sub-email">>
  /\ auth_result.exc = Unauthorized

\* the credential of the event: the token that is left once a 'Bearer '
\* prefix in any letter case is removed
CredentialIds ==
  {j \in JwtIds : AuthTokenText \in {<<j>>, Bearer \o <<j>>, bearer \o <<j>>, BEARER \o <<j>>}}

\* the credential verifies under the secret this execution context holds
VerifiedIds ==
  {j \in CredentialIds : cached_secret = PyStr(<<Jwt(j).key>>) /\ ~Jwt(j).expired}

\* C3: a credential that verifies (with or without a 'Bearer ' prefix in any
\* case) yields a policy with principalId = sub if present, else email if
\* present, else 'user'; one statement with Effect Allow and Resource the
\* event's methodArn; context {userId: principalId, email: email or ''}.
C3_AllowPolicy ==
  \A j \in VerifiedIds :
    AuthInvoked =>
      LET c == Jwt(j).claims
          p == auth_result.policy
      IN /\ auth_result.kind = "return"
         /\ p.kind = "policy"
         /\ p.principalId = (IF c.sub.present THEN c.sub.value
                             ELSE IF c.email.present THEN c.email.value
                             ELSE PyStr(<<"user">>))
         /\ Len(p.Statement) = 1
         /\ p.Statement[1].Effect = "Allow"
         /\ p.Statement[1].Effect # "Deny"
         /\ (auth_event.methodArn.present =>
               p.Statement[1].Resource = auth_event.methodArn.value)
         /\ p.context.userId = p.principalId
         /\ p.context.email = (IF c.email.present THEN c.email.value ELSE PyStr(<<>>))

\* an upper-case BEARER prefix, no sub claim: the principal is the email
C3_Witness ==
  /\ AuthTokenText = BEARER \o <<"jwt-email">>
  /\ auth_result.kind = "return"
  /\ auth_result.policy.principalId = PyStr(<<"t@example.com">>)

\* C4 as stated: get_secret_value is called at most once in total, also when
\* retrievals fail.
C4_AtMostOneCall == secret_calls <= 1

\* C4 amended: once a retrieval has succeeded the collaborator is never
\* called again and the cached value never changes; a failed retrieval caches
\* nothing, so a later invocation calls the collaborator again.
C4_CachedNeverRefetched ==
  [][cached_secret # PyNone =>
       /\ secret_calls' = secret_calls
       /\ cached_secret' = cached_secret
       /\ ~auth_called']_vars

\* a policy was returned from the cached secret without a collaborator call
C4_Witness ==
  /\ cached_secret # PyNone
  /\ auth_result.kind = "return"
  /\ ~auth_called
  /\ secret_calls = 1

\* ---------------------------------------------------------------
\* Properties of the archiver
\* ---------------------------------------------------------------
ArchInvoked == arch_result.kind # "none"

ArchStatusIs(st) ==
  ArchInvoked /\ HasKey(arch_event, "status") /\ GetItem(arch_event, "status") = st

\* C5 as stated: for an event whose status is 'rejected' put_object is never
\* called and the invocation ends by raising ValueError('Order status is
\* rejected!'), returning no success document.
C5_RejectedNeverStored ==
  ArchStatusIs(rejected) =>
    /\ s3_calls = NoCalls
    /\ arch_result.kind = "raise"
    /\ arch_result.exc = Exc("ValueError", "Order status is rejected!")
    /\ arch_result.response = NoResponse

\* C6 as stated: for a document whose status is not 'rejected', whatever its
\* other fields and value types, exactly one put_object is made (configured
\* bucket, key orders/order_<timestamp>.json, application/json, AES256, the
\* serialized document as body), and when it succeeds the handler returns
\* {statusCode 200, message, order: the input unchanged}.
C6_AcceptedStoredOnce ==
  (ArchInvoked /\ HasKey(arch_event, "status") /\ GetItem(arch_event, "status") # rejected) =>
    /\ Len(s3_calls) = 1
    /\ s3_calls[1].Bucket = LOG_BUCKET
    /\ s3_calls[1].Key = [name |-> [prefix |-> "orders/order_", isoformat |-> now],
                          ext |-> ".json"]
    /\ s3_calls[1].ContentType = "application/json"
    /\ s3_calls[1].ServerSideEncryption = "AES256"
    /\ s3_calls[1].Body = JsonText(Stringified(arch_event), 2)
    /\ \/ /\ arch_result.kind = "return"
          /\ arch_result.response =
               [kind |-> "document", statusCode |-> 200,
                message |-> "Order processed successfully", order |-> arch_event]
       \/ /\ arch_result.kind = "raise"
          /\ arch_result.exc \in S3Responses

\* ---------------------------------------------------------------
\* Properties of the ingestion API
\* ---------------------------------------------------------------
IngInvoked == ing_result.kind # "none"

\* the event has the method and the path of an HTTP-shaped event
HttpShaped == ing_event.httpMethod.present /\ ing_event.path.present

IngBody == IF ing_event.body.present THEN ing_event.body.value ELSE PyNone

BodyIsText == IngBody.kind = "str"

\* the value the handler validates: the parsed text, or the body itself
IngOrders == IF BodyIsText THEN IngBody.denotes ELSE IngBody

\* the body is, or denotes, a list made of mappings only
IsBatchOfRecords ==
  /\ IngBody # PyNone
  /\ IngOrders.kind = "list"
  /\ \A i \in 1..Len(IngOrders.elems) : IngOrders.elems[i].kind = "dict"

Response400(text, detail) == http_response(400, ErrorBody(text, detail))

CheckNames(trace) == [i \in 1..Len(trace) |-> trace[i].check]

IsPrefix(p, q) == Len(p) <= Len(q) /\ SubSeq(q, 1, Len(p)) = p

\* C7: the validation gate evaluates body, JSON (text bodies only), list,
\* record_id in this order, stops at the first check that fails, and that
\* check alone determines the 400 response and its message.
C7_ValidationGate ==
  (IngInvoked /\ ing_checked # <<>>) =>
    LET n == Len(ing_checked)
        lastCheck == ing_checked[n]
        r == ing_result.response
    IN /\ IsPrefix(CheckNames(ing_checked),
                   IF BodyIsText THEN <<"body", "json", "list", "record_id">>
                   ELSE <<"body", "list", "record_id">>)
       /\ \A i \in 1..(n - 1) : ing_checked[i].outcome = "passed"
       /\ ing_result.kind = "return"
       /\ (IngBody = PyNone =>
             lastCheck = Check("body", "failed") /\ r = Response400("Request body is empty", ""))
       /\ (BodyIsText /\ IngBody.denotes = Malformed =>
             /\ lastCheck = Check("json", "failed")
             /\ r = Response400("Invalid JSON: ", "Expecting value: line 1 column 1 (char 0)"))
       /\ (IngBody # PyNone /\ IngOrders # Malformed /\ IngOrders.kind # "list" =>
             /\ lastCheck = Check("list", "failed")
             /\ r = Response400("Request body must be a list of orders", ""))
       /\ (IsBatchOfRecords /\ (\E i \in 1..Len(IngOrders.elems) :
                                  ~HasKey(IngOrders.elems[i], "record_id")) =>
             /\ lastCheck = Check("record_id", "failed")
             /\ r = Response400("Each order must have a 'record_id' field", ""))
       /\ (lastCheck.outcome = "failed" => r.statusCode = 400)
       /\ (r.statusCode = 400 => lastCheck.outcome = "failed")

\* an already parsed body that is no list: the JSON check is skipped
C7_Witness ==
  /\ IngInvoked
  /\ ~BodyIsText
  /\ ing_checked = <<Check("body", "passed"), Check("list", "failed")>>
  /\ ing_result.response = Response400("Request body must be a list of orders", "")

\* C8: a batch of records in which any record, at any position, lacks
\* record_id is answered 400 and nothing of it reaches the store (no
\* batch_writer, no put_item); the store is touched only when the whole
\* batch passed every check.
C8_AllOrNothing ==
  IngInvoked =>
    /\ (HttpShaped /\ IsBatchOfRecords
          /\ (\E i \in 1..Len(IngOrders.elems) : ~HasKey(IngOrders.elems[i], "record_id")) =>
          /\ batch_writer_calls = 0
          /\ put_item_calls = <<>>
          /\ ing_result.kind = "return"
          /\ ing_result.response.statusCode = 400)
    /\ (batch_writer_calls > 0 \/ put_item_calls # <<>> =>
          /\ HttpShaped
          /\ IngBody # PyNone
          /\ IngOrders.kind = "list"
          /\ \A i \in 1..Len(IngOrders.elems) :
               IngOrders.elems[i].kind = "dict" => HasKey(IngOrders.elems[i], "record_id")
          /\ ing_checked[Len(ing_checked)] = Check("record_id", "passed"))

\* the record without record_id comes last, after a valid record
C8_Witness ==
  /\ IngInvoked
  /\ IsBatchOfRecords
  /\ Len(IngOrders.elems) = 2
  /\ HasKey(IngOrders.elems[1], "record_id")
  /\ ~HasKey(IngOrders.elems[2], "record_id")
  /\ ing_result.response.statusCode = 400
  /\ put_item_calls = <<>>

\* the record_id of a record is absent, '' or None
RecordIdEmpty(rec) ==
  ~HasKey(rec, "record_id") \/ GetItem(rec, "record_id") \in {PyStr(<<>>), PyNone}

\* C9 as stated: every item submitted to the store carries a non-empty
\* record_id, and a batch with a record whose record_id is absent or empty
\* ('' or null) is rejected in full with 400, none of it written.
C9_NonEmptyRecordId ==
  IngInvoked =>
    /\ \A i \in 1..Len(put_item_calls) : ~RecordIdEmpty(put_item_calls[i])
    /\ (HttpShaped /\ IsBatchOfRecords
          /\ (\E i \in 1..Len(IngOrders.elems) : RecordIdEmpty(IngOrders.elems[i])) =>
          /\ put_item_calls = <<>>
          /\ ing_result.kind = "return"
          /\ ing_result.response.statusCode = 400)

\* C9 amended: every item submitted to the store carries a record_id field,
\* whose value may be empty or null; a batch with a record whose record_id
\* field is absent is rejected in full with 400, none of it written.
C9_RecordIdPresent ==
  IngInvoked =>
    /\ \A i \in 1..Len(put_item_calls) :
         put_item_calls[i].kind = "dict" /\ HasKey(put_item_calls[i], "record_id")
    /\ (HttpShaped /\ IsBatchOfRecords
          /\ (\E i \in 1..Len(IngOrders.elems) : ~HasKey(IngOrders.elems[i], "record_id")) =>
          /\ put_item_calls = <<>>
          /\ ing_result.kind = "return"
          /\ ing_result.response.statusCode = 400)

\* an item with an empty record_id was submitted and the batch answered 201
C9_Witness ==
  /\ IngInvoked
  /\ Len(put_item_calls) = 1
  /\ GetItem(put_item_calls[1], "record_id") = PyStr(<<>>)
  /\ ing_result.response.statusCode = 201

\* C10 as stated: for every event, also one lacking httpMethod, path or
\* body, the handler returns a response with statusCode 201, 400 or 500,
\* Content-Type application/json and isBase64Encoded false, and every
\* exception not mapped to a 400 becomes a 500 'Internal server error: ...'.
C10_NeverRaises ==
  IngInvoked =>
    /\ ing_result.kind = "return"
    /\ ing_result.exc = NoExc
    /\ ing_result.response.kind = "response"
    /\ ing_result.response.statusCode \in {201, 400, 500}
    /\ ing_result.response.headers.ContentType = "application/json"
    /\ ing_result.response.isBase64Encoded = FALSE
    /\ (ing_result.response.statusCode = 500 =>
          ing_result.response.body.errorMessage.text = "Internal server error: ")

\* every element of the batch is a mapping with a record_id field
PassesValidation ==
  /\ HttpShaped
  /\ IsBatchOfRecords
  /\ \A i \in 1..Len(IngOrders.elems) : HasKey(IngOrders.elems[i], "record_id")

\* the keys of a mapping, in order
KeysOf(d) == [j \in 1..Len(d.items) |-> d.items[j].k]

\* C11: a batch of N records that passes validation and whose store calls
\* all succeed is answered 201 {message: 'Successfully saved N orders',
\* count: N}; exactly N items were submitted within one batch writer, item i
\* for record i, holding every field of record i plus ttl and created_at;
\* and no 201 is returned unless all N records were submitted.
C11_SuccessPath ==
  IngInvoked =>
    /\ (PassesValidation /\ ing_fault.at = "none" =>
          LET N == Len(IngOrders.elems) IN
          /\ ing_result.kind = "return"
          /\ ing_result.response = http_response(201, SavedBody(N))
          /\ batch_writer_calls = 1
          /\ Len(put_item_calls) = N
          /\ \A i \in 1..N :
               LET rec == IngOrders.elems[i]
                   item == put_item_calls[i]
               IN /\ item.kind = "dict"
                  /\ GetItem(item, "record_id") = GetItem(rec, "record_id")
                  /\ \A j \in 1..Len(rec.items) : HasKey(item, rec.items[j].k)
                  /\ HasKey(item, "ttl")
                  /\ HasKey(item, "created_at"))
    /\ (ing_result.kind = "return" /\ ing_result.response.statusCode = 201 =>
          /\ PassesValidation
          /\ ing_fault.at = "none"
          /\ batch_writer_calls = 1
          /\ Len(put_item_calls) = Len(IngOrders.elems))

\* two different records, saved in the order they came in
C11_Witness ==
  /\ IngInvoked
  /\ PassesValidation
  /\ Len(IngOrders.elems) = 2
  /\ ing_result.response = http_response(201, SavedBody(2))
  /\ Len(put_item_calls) = 2
  /\ GetItem(put_item_calls[1], "record_id") = T("order-002")
  /\ GetItem(put_item_calls[2], "record_id") = T("order-001")
  /\ HasKey(put_item_calls[2], "power")

\* ---------------------------------------------------------------
\* Properties of convert_floats_to_decimal
\* ---------------------------------------------------------------
RECURSIVE FloatsReplaced(_, _)
\* res is doc with every float leaf replaced by the decimal of its digits and
\* nothing else changed: same leaves otherwise, same keys, lengths and order
FloatsReplaced(doc, res) ==
  CASE doc.kind = "float" -> res.kind = "Decimal" /\ res.digits = doc.repr
    [] doc.kind \in {"int", "str", "Decimal"} -> res = doc
    [] doc.kind = "dict" ->
         /\ res.kind = "dict"
         /\ Len(res.items) = Len(doc.items)
         /\ \A i \in 1..Len(doc.items) :
              /\ res.items[i].k = doc.items[i].k
              /\ FloatsReplaced(doc.items[i].v, res.items[i].v)
    [] doc.kind = "list" ->
         /\ res.kind = "list"
         /\ Len(res.elems) = Len(doc.elems)
         /\ \A i \in 1..Len(doc.elems) : FloatsReplaced(doc.elems[i], res.elems[i])
    [] OTHER -> FALSE

\* C12: on every nested document of floats, integers, strings, decimals,
\* mappings and lists, convert_floats_to_decimal replaces every float leaf at
\* any depth by its decimal, returns every other leaf unchanged, keeps the
\* keys, the lengths and the order, and a second application changes nothing.
C12_ConvertFloats ==
  /\ (Len(conv_out) >= 1 => FloatsReplaced(conv_in, conv_out[1]))
  /\ (Len(conv_out) = 2 => conv_out[2] = conv_out[1])

\* a float two levels down, in a list inside a mapping, next to an integer
C12_Witness ==
  /\ Len(conv_out) = 2
  /\ conv_in = PyDict(<<Item("nested", PyList(<<PyFloat(<<"1", ".", "5">>), PyInt(100)>>)),
                         Item("count", PyFloat(<<"5", "0", ".", "2", "5">>))>>)
  /\ conv_out[2] = PyDict(<<Item("nested", PyList(<<PyDecimal(<<"1", ".", "5">>), PyInt(100)>>)),
                            Item("count", PyDecimal(<<"5", "0", ".", "2", "5">>))>>)

\* ---------------------------------------------------------------
\* Properties of the ingestion API: the items and the store
\* ---------------------------------------------------------------
\* C13 as stated: under a clock that may advance between any two steps of
\* save_to_db, every item submitted to the store has ttl equal to its own
\* created_at plus 86400 seconds, the later records of a batch included.
C13_TtlIsCreatedPlusDay ==
  IngInvoked =>
    \A i \in 1..Len(put_item_calls) :
      GetItem(put_item_calls[i], "ttl") =
        PyInt(GetItem(put_item_calls[i], "created_at").n + 86400)

\* the put_item calls made are those of the first k records, each once
SubmittedUpTo(k) ==
  /\ Len(put_item_calls) = k
  /\ \A i \in 1..k :
       GetItem(put_item_calls[i], "record_id") = GetItem(IngOrders.elems[i], "record_id")

\* C14: no retry and no swallowed store failure.  Archiver: a put_object
\* that fails was called exactly once, its exception leaves lambda_handler
\* unchanged and no success document is returned.  Ingestion: after
\* batch_writer() failed no record is submitted, after the put_item of
\* record k failed the calls made are those of records 1..k and no more,
\* and in both cases the response is 500, never 201.
C14_NoRetryNoSwallow ==
  /\ (ArchInvoked /\ s3_fault # NoExc =>
        /\ Len(s3_calls) = 1
        /\ arch_result.kind = "raise"
        /\ arch_result.exc = s3_fault
        /\ arch_result.response = NoResponse)
  /\ (IngInvoked /\ ing_fault.at = "open" =>
        /\ batch_writer_calls = 1
        /\ put_item_calls = <<>>
        /\ ing_result.kind = "return"
        /\ ing_result.response.statusCode = 500)
  /\ (IngInvoked /\ ing_fault.at = "put" =>
        /\ batch_writer_calls = 1
        /\ SubmittedUpTo(ing_fault.idx)
        /\ ing_result.kind = "return"
        /\ ing_result.response.statusCode = 500)

\* the put_item of the first of two records failed: the second was not tried
C14_Witness ==
  /\ IngInvoked
  /\ ing_fault = [at |-> "put", idx |-> 1]
  /\ IsBatchOfRecords
  /\ Len(IngOrders.elems) = 2
  /\ Len(put_item_calls) = 1
  /\ ing_result.response =
       http_response(500, ErrorBody("Internal server error: ", "DynamoDB error"))

\* the body is, or denotes, a list with an element that is no mapping
HasNonMappingElement ==
  /\ IngBody # PyNone
  /\ IngOrders.kind = "list"
  /\ \E i \in 1..Len(IngOrders.elems) : IngOrders.elems[i].kind # "dict"

\* C15 as stated: a body of the wrong shape is answered 400 and never 500;
\* a parsed value that is no list, and a list with an element that is no
\* mapping (a number, a string, null, a nested list), both get a 400 with a
\* message and nothing is attempted on the store.
C15_ShapeErrorIs400 ==
  (IngInvoked /\ HttpShaped) =>
    /\ (IngBody # PyNone /\ IngOrders # Malformed /\ IngOrders.kind # "list" =>
          ing_result.response = Response400("Request body must be a list of orders", ""))
    /\ (HasNonMappingElement =>
          /\ ing_result.kind = "return"
          /\ ing_result.response.statusCode = 400
          /\ ing_result.response.body.errorMessage.text # ""
          /\ batch_writer_calls = 0
          /\ put_item_calls = <<>>)

\* C16: for a record that carries a ttl or created_at of the client, the
\* item submitted holds the ttl and created_at the system computed from its
\* clock, never the client's values, each once; every other field is passed
\* through under its key (floats as decimals); and the records the caller
\* handed over are the same after the call.
C16_SystemFieldsWin ==
  IngInvoked =>
    /\ \A i \in 1..Len(put_item_calls) :
         LET rec == IngOrders.elems[i]
             item == put_item_calls[i]
         IN (HasKey(rec, "ttl") \/ HasKey(rec, "created_at")) =>
              /\ \A key \in {"ttl", "created_at"} :
                   /\ Cardinality({j \in 1..Len(item.items) : item.items[j].k = key}) = 1
                   /\ HasKey(rec, key) => GetItem(item, key) # GetItem(rec, key)
              /\ GetItem(item, "ttl") \in {PyInt(t + TTL_SECONDS) : t \in 0..now}
              /\ GetItem(item, "created_at") \in {PyInt(t) : t \in 0..now}
              /\ \A j \in 1..Len(rec.items) :
                   rec.items[j].k \notin {"ttl", "created_at"} =>
                     /\ HasKey(item, rec.items[j].k)
                     /\ FloatsReplaced(rec.items[j].v, GetItem(item, rec.items[j].k))
              /\ Len(item.items) = Len(rec.items) + Cardinality({key \in {"ttl", "created_at"} : ~HasKey(rec, key)})
    /\ (batch_writer_calls > 0 => saved_records = IngOrders.elems)

\* the record with the client's ttl 5 and created_at 'yesterday' was saved
C16_Witness ==
  /\ IngInvoked
  /\ ing_result.response.statusCode = 201
  /\ Len(put_item_calls) = 1
  /\ HasKey(IngOrders.elems[1], "ttl")
  /\ HasKey(IngOrders.elems[1], "created_at")
  /\ GetItem(IngOrders.elems[1], "ttl") = PyInt(5)
  /\ GetItem(IngOrders.elems[1], "created_at") = T("yesterday")
  /\ KeysOf(put_item_calls[1]) = <<"ttl", "record_id", "created_at">>
  /\ GetItem(put_item_calls[1], "ttl").n >= TTL_SECONDS
  /\ GetItem(saved_records[1], "ttl") = PyInt(5)

====
